---- MODULE Spec2Model ----
(***************************************************************************)
(* peewee-db-evolve: the schema diff (calc_table_changes,                  *)
(* calc_column_changes, calc_changes) and the plan executor (evolve,       *)
(* _confirm, _execute) of src/peeweedbevolve.py.                           *)
(*                                                                         *)
(* The declared schema is the registry all_models; the live schema is the  *)
(* database catalog.  Python sets and dicts iterate in hash order: the     *)
(* variable hrank fixes one such order per process, chosen freely.         *)
(***************************************************************************)
EXTENDS Integers, Sequences, FiniteSets, TLC

VARIABLES
  models,        \* all_models: db_table -> [aka, fields]
  db,            \* the live catalog: table -> [columns, fks]
  hrank,         \* the hash order of names in this process
  interactive,   \* evolve's interactive argument
  pc,            \* where evolve is
  to_run,        \* the plan calc_changes returned
  idx,           \* _execute: index of the next statement of to_run
  snapshot,      \* the catalog when db.atomic() opened the transaction
  executed,      \* number of plan statements sent to db.execute_sql in this run
  prompted,      \* whether _confirm has printed its question in this run
  answered,      \* _confirm: the last normalized response
  exit_status,   \* the status sys.exit was called with, 0 when it was not
  run,           \* how many times evolve has been called
  before         \* the catalog when this call of evolve started

vars == <<models, db, hrank, interactive, pc, to_run, idx, snapshot, executed,
          prompted, answered, exit_status, run, before>>

(***************************************************************************)
(* Bounds                                                                  *)
(***************************************************************************)
MaxAkas == 2      \* longest alias list of a table or a column
MaxRuns == 2      \* how many times evolve is called in a row

(***************************************************************************)
(* Names                                                                   *)
(***************************************************************************)
NewTables == {"t1", "t2", "t3"}
OldTables == {"o1", "o2"}
TableNames == NewTables \cup OldTables
OldCols == {"c1", "c2"}
NewCols == {"n1", "n2"}
FkCol == [d \in NewTables |->
            CASE d = "t1" -> "fk_t1" [] d = "t2" -> "fk_t2" [] OTHER -> "fk_t3"]
ColNames == {"id"} \cup OldCols \cup NewCols \cup {FkCol[d] : d \in NewTables}
AllNames == TableNames \cup ColNames

\* the alphabetical order of the names: sorted() in sort_models_topologically
AlphaRank == [n \in NewTables |-> CASE n = "t1" -> 1 [] n = "t2" -> 2 [] OTHER -> 3]

(***************************************************************************)
(* Helpers on sets, sequences and dicts                                    *)
(***************************************************************************)
RECURSIVE SortBy(_, _)
\* the elements of S as a list, by increasing rank r
SortBy(S, r) ==
  IF S = {} THEN <<>>
  ELSE LET m == CHOOSE x \in S : \A y \in S : r[x] <= r[y]
       IN <<m>> \o SortBy(S \ {m}, r)

\* dict.get(k, d)
Get(d, k, dflt) == IF k \in DOMAIN d THEN d[k] ELSE dflt

\* d[k] = v
Put(d, k, v) == (k :> v) @@ d

EmptyDict == [x \in {} |-> x]

Range(s) == {s[i] : i \in 1..Len(s)}

\* lists over S without repetition, of length at most n
RECURSIVE ListsUpTo(_, _)
ListsUpTo(S, n) ==
  IF n = 0 THEN {<<>>}
  ELSE LET shorter == ListsUpTo(S, n - 1)
       IN shorter \cup {Append(l, x) : l \in shorter, x \in S}

Perms(S) == {f \in [S -> 1..Cardinality(S)] : \A x, y \in S : x # y => f[x] # f[y]}

(***************************************************************************)
(* Type normalizer                                                         *)
(***************************************************************************)
\* what a field's get_column_type() returns
FieldTypes == {"SERIAL", "INTEGER", "VARCHAR", "TEXT", "TIMESTAMP", "DOUBLE PRECISION"}
\* what the catalog reports as a column's data_type
CatalogTypes == {"integer", "character varying", "text",
                 "timestamp without time zone", "double precision",
                 "varchar(255)", "real"}

\* str.lower()
Lower(t) ==
  CASE t = "SERIAL" -> "serial"
    [] t = "INTEGER" -> "integer"
    [] t = "VARCHAR" -> "varchar"
    [] t = "TEXT" -> "text"
    [] t = "TIMESTAMP" -> "timestamp"
    [] t = "DOUBLE PRECISION" -> "double precision"
    [] OTHER -> t

\* _re_varchar.match(t)
re_varchar_match(t) == t \in {"varchar(255)"}

normalize_column_type(t) ==
  LET t0 == Lower(t)
      t1 == IF t0 \in {"serial"} THEN "integer" ELSE t0
      t2 == IF t1 \in {"character varying"} THEN "varchar" ELSE t1
      t3 == IF t2 \in {"timestamp without time zone"} THEN "timestamp" ELSE t2
      t4 == IF t3 \in {"double precision"} THEN "real" ELSE t3
      t5 == IF re_varchar_match(t4) THEN "varchar" ELSE t4
  IN t5

normalize_field_type(field) == normalize_column_type(field.column_type)

can_convert(type1, type2) == TRUE

column_def_changed(a, b) ==
  a.null # b.null \/ a.data_type # b.data_type \/ a.primary_key # b.primary_key

\* pw.ColumnMetadata(name, data_type, null, primary_key, table), without table
ColumnMetadata(name, data_type, null, primary_key) ==
  [name |-> name, data_type |-> data_type, null |-> null, primary_key |-> primary_key]

\* ForeignKeyMetadata(column, dest_table, dest_column, table, name); the
\* destination column is always the id and the table is the key of the catalog
ForeignKeyMetadata(column, dest_table, name) ==
  [column |-> column, dest_table |-> dest_table, name |-> name]

\* isinstance(field, pw.ForeignKeyField)
IsForeignKeyField(field) == field.rel # ""

\* the truth value Python gives field.default
Truthy(v) == v \notin {"None", "int:0", "str:"}

(***************************************************************************)
(* Statements of a plan                                                    *)
(***************************************************************************)
NoName == <<>>
Stmt(kind, table, column, arg, name) ==
  [kind |-> kind, table |-> table, column |-> column, arg |-> arg, name |-> name]

\* the constraint name qc._create_foreign_key and create_table give
FkName(table, column, dest) == <<table, column, dest>>

\* sql.strip().startswith('--')
IsComment(s) == s.kind = "comment"

(***************************************************************************)
(* The registry and the table diff                                         *)
(***************************************************************************)
\* {cls._meta.db_table:cls for cls in all_models.keys()}
table_names_to_models == models

FieldsByColumnName(fields) ==
  [cn \in {f.db_column : f \in fields} |-> CHOOSE f \in fields : f.db_column = cn]

\* the tables the declared table t has a foreign key to
FkDests(t) == {f.rel : f \in {g \in models[t].fields : IsForeignKeyField(g)}}

\* model._meta.reverse_rel: the declared tables with a foreign key to t
reverse_rel(t) == {c \in DOMAIN models : t \in FkDests(c)}

RECURSIVE dfs(_, _, _), dfs_each(_, _, _, _)
\* dfs(model) of pw.sort_models_topologically; S is [seen, ordering]
dfs(model, among, S) ==
  IF model \in among /\ model \notin S.seen
  THEN LET S1 == [S EXCEPT !.seen = @ \cup {model}]
           S2 == dfs_each(SortBy(reverse_rel(model), hrank), 1, among, S1)
       IN [S2 EXCEPT !.ordering = Append(@, model)]
  ELSE S
dfs_each(ms, i, among, S) ==
  IF i > Len(ms) THEN S ELSE dfs_each(ms, i + 1, among, dfs(ms[i], among, S))

Reverse(s) == [i \in 1..Len(s) |-> s[Len(s) + 1 - i]]

\* pw.sort_models_topologically(models): depth first over reverse_rel from
\* the models sorted by name in reverse, the finishing order reversed
sort_models_topologically(among) ==
  LET start == Reverse(SortBy(among, AlphaRank))
      S == dfs_each(start, 1, among, [seen |-> {}, ordering |-> <<>>])
  IN Reverse(S.ordering)

sort_by_fk_deps(table_names) ==
  sort_models_topologically({t \in DOMAIN models : t \in table_names})

RECURSIVE LastAlias(_, _, _)
\* a loop without the break: the last alias found in deletes wins
LastAlias(akas, deletes, i) ==
  IF i > Len(akas) THEN 0
  ELSE LET later == LastAlias(akas, deletes, i + 1)
       IN IF later # 0 THEN later ELSE IF akas[i] \in deletes THEN i ELSE 0

RECURSIVE FirstAlias(_, _, _)
\* for a in akas: if a in deletes: ... break -- the index of that a, or 0
FirstAlias(akas, deletes, i) ==
  IF i > Len(akas) THEN 0
  ELSE IF akas[i] \in deletes THEN i
  ELSE FirstAlias(akas, deletes, i + 1)

RECURSIVE TableRenameLoop(_, _, _)
\* for to_add in list(adds): ...; S is [adds, deletes, renames]
TableRenameLoop(todo, i, S) ==
  IF i > Len(todo) THEN S
  ELSE LET to_add == todo[i]
           akas == table_names_to_models[to_add].aka
           Matched(k) ==
             IF k = 0 THEN S
             ELSE [adds |-> S.adds \ {to_add},
                   deletes |-> S.deletes \ {akas[k]},
                   renames |-> Put(S.renames, akas[k], to_add)]
       IN TableRenameLoop(todo, i + 1, Matched(FirstAlias(akas, S.deletes, 1)))

calc_table_changes(existing_tables) ==
  LET defined_tables == DOMAIN table_names_to_models
      adds == defined_tables \ existing_tables
      deletes == existing_tables \ defined_tables
      Result(S) ==
        [adds |-> sort_by_fk_deps(S.adds), deletes |-> S.deletes, renames |-> S.renames]
  IN Result(TableRenameLoop(SortBy(adds, hrank), 1,
              [adds |-> adds, deletes |-> deletes, renames |-> EmptyDict]))

(***************************************************************************)
(* The column diff                                                         *)
(***************************************************************************)
RECURSIVE ColumnAkaLoop(_, _, _, _, _)
\* for aka in field.akas: ...; S is [new_cols, delete_cols, rename_cols]
ColumnAkaLoop(cn, akas, i, types, S) ==
  IF i > Len(akas) THEN S
  ELSE IF akas[i] \in S.delete_cols /\ can_convert(types.sc, types.ec[akas[i]])
  THEN ColumnAkaLoop(cn, akas, i + 1, types,
         [new_cols |-> S.new_cols \ {cn},
          delete_cols |-> S.delete_cols \ {akas[i]},
          rename_cols |-> Put(S.rename_cols, akas[i], cn)])
  ELSE ColumnAkaLoop(cn, akas, i + 1, types, S)

RECURSIVE ColumnRenameLoop(_, _, _, _, _)
\* for cn in list(new_cols): ...
ColumnRenameLoop(todo, i, fields_by_name, existing_types, S) ==
  IF i > Len(todo) THEN S
  ELSE LET cn == todo[i]
           field == fields_by_name[cn]
           types == [sc |-> normalize_field_type(field), ec |-> existing_types]
       IN ColumnRenameLoop(todo, i + 1, fields_by_name, existing_types,
                           ColumnAkaLoop(cn, field.akas, 1, types, S))

RECURSIVE InvertDict(_, _, _, _)
\* {v:k for k,v in rename_cols.items()}: a later key overwrites an earlier one
InvertDict(d, keys, i, acc) ==
  IF i > Len(keys) THEN acc
  ELSE InvertDict(d, keys, i + 1, Put(acc, d[keys[i]], keys[i]))

\* one round of "look for column metadata changes": the statements for one
\* column, raised when none was found for a changed definition
ColumnMetadataChange(ntn, existing_col, defined_col) ==
  IF column_def_changed(existing_col, defined_col)
  THEN LET a == IF existing_col.null /\ ~defined_col.null
                THEN <<Stmt("add_not_null", ntn, defined_col.name, "", NoName)>>
                ELSE <<>>
           b == IF ~existing_col.null /\ defined_col.null
                THEN <<Stmt("drop_not_null", ntn, defined_col.name, "", NoName)>>
                ELSE <<>>
           Result(alter_statements) ==
             [raised |-> ~(0 < Len(alter_statements)), stmts |-> alter_statements]
       IN Result(a \o b)
  ELSE [raised |-> FALSE, stmts |-> <<>>]

\* the statements so far followed by those of the next round, raised if it raised
Then(acc, r) == [raised |-> r.raised, stmts |-> acc.stmts \o r.stmts]

RECURSIVE MetadataLoop(_, _, _, _, _, _, _)
\* for col_name in not_new_columns: ... (first loop); acc is [raised, stmts]
MetadataLoop(ntn, todo, i, existing_cols, defined_cols, new_to_old, acc) ==
  IF i > Len(todo) \/ acc.raised THEN acc
  ELSE LET col_name == todo[i]
           existing_col == existing_cols[Get(new_to_old, col_name, col_name)]
           defined_col == defined_cols[col_name]
       IN MetadataLoop(ntn, todo, i + 1, existing_cols, defined_cols, new_to_old,
                       Then(acc, ColumnMetadataChange(ntn, existing_col, defined_col)))

\* the fk round with the constraint dropped whenever one exists
ForeignKeyChangeAlwaysDrop(ntn, defined_field, existing_fks_on_column) ==
  LET has_fk == existing_fks_on_column # {}
      existing_fk == CHOOSE fk \in existing_fks_on_column : TRUE
      a == IF IsForeignKeyField(defined_field) /\ ~has_fk
           THEN <<Stmt("add_fk", ntn, defined_field.db_column, defined_field.rel,
                       FkName(ntn, defined_field.db_column, defined_field.rel))>>
           ELSE <<>>
      b == IF has_fk
           THEN <<Stmt("drop_constraint", ntn, "", "", existing_fk.name)>>
           ELSE <<>>
  IN a \o b

\* one round of "look for fk changes": the statements for one column
ForeignKeyChange(ntn, defined_field, existing_fks_on_column) ==
  LET has_fk == existing_fks_on_column # {}
      existing_fk == CHOOSE fk \in existing_fks_on_column : TRUE
      a == IF IsForeignKeyField(defined_field) /\ ~has_fk
           THEN <<Stmt("add_fk", ntn, defined_field.db_column, defined_field.rel,
                       FkName(ntn, defined_field.db_column, defined_field.rel))>>
           ELSE <<>>
      b == IF ~IsForeignKeyField(defined_field) /\ has_fk
           THEN <<Stmt("drop_constraint", ntn, "", "", existing_fk.name)>>
           ELSE <<>>
  IN a \o b

RECURSIVE ForeignKeyLoop(_, _, _, _, _, _, _)
\* for col_name in not_new_columns: ... (second loop)
ForeignKeyLoop(ntn, todo, i, fields_by_name, existing_fks, renames_new_to_old, acc) ==
  IF i > Len(todo) THEN acc
  ELSE LET col_name == todo[i]
           existing_column_name == Get(renames_new_to_old, col_name, col_name)
           on_column == {fk \in existing_fks : fk.column = existing_column_name}
       IN ForeignKeyLoop(ntn, todo, i + 1, fields_by_name, existing_fks,
                         renames_new_to_old,
                         acc \o ForeignKeyChange(ntn, fields_by_name[col_name], on_column))

calc_column_changes(ntn, existing_columns_raw, defined_fields, existing_fks) ==
  LET defined_fields_by_column_name == FieldsByColumnName(defined_fields)
      existing_columns ==
        {ColumnMetadata(c.name, normalize_column_type(c.data_type), c.null, c.primary_key)
           : c \in existing_columns_raw}
      defined_columns ==
        {ColumnMetadata(f.db_column, normalize_field_type(f), f.null, f.primary_key)
           : f \in defined_fields}
      existing_cols_by_name ==
        [n \in {c.name : c \in existing_columns} |->
           CHOOSE c \in existing_columns : c.name = n]
      defined_cols_by_name ==
        [n \in {c.name : c \in defined_columns} |->
           CHOOSE c \in defined_columns : c.name = n]
      existing_col_names == DOMAIN existing_cols_by_name
      defined_col_names == DOMAIN defined_cols_by_name
      new_cols == defined_col_names \ existing_col_names
      delete_cols == existing_col_names \ defined_col_names
      existing_types == [n \in existing_col_names |-> existing_cols_by_name[n].data_type]
      Alters(S, not_new_columns, renames_new_to_old) ==
        LET fk == ForeignKeyLoop(ntn, not_new_columns, 1, defined_fields_by_column_name,
                                 existing_fks, renames_new_to_old, <<>>)
            Result(meta) ==
              [raised |-> meta.raised,
               new_cols |-> S.new_cols, delete_cols |-> S.delete_cols,
               rename_cols |-> S.rename_cols,
               alter_statements |-> IF meta.raised THEN <<>> ELSE meta.stmts \o fk]
        IN Result(MetadataLoop(ntn, not_new_columns, 1, existing_cols_by_name,
                               defined_cols_by_name, renames_new_to_old,
                               [raised |-> FALSE, stmts |-> <<>>]))
      AfterRenames(S) ==
        Alters(S, SortBy(defined_col_names \ S.new_cols, hrank),
               InvertDict(S.rename_cols, SortBy(DOMAIN S.rename_cols, hrank), 1,
                          EmptyDict))
  IN AfterRenames(
       ColumnRenameLoop(SortBy(new_cols, hrank), 1, defined_fields_by_column_name,
         existing_types,
         [new_cols |-> new_cols, delete_cols |-> delete_cols,
          rename_cols |-> EmptyDict]))

(***************************************************************************)
(* The plan                                                                *)
(***************************************************************************)
\* the statements calc_changes emits for one added column
AddColumnGroup(ntn, column_name, field) ==
  <<Stmt("add_column", ntn, column_name, field.rel, NoName)>>
  \o (IF ~field.null
      THEN (IF Truthy(field.default)
            THEN <<Stmt("apply_default", ntn, column_name, "", NoName)>>
            ELSE <<Stmt("comment", "", "", "", NoName)>>)
           \o <<Stmt("add_not_null", ntn, column_name, "", NoName)>>
      ELSE <<>>)

RECURSIVE AddsLoop(_, _, _, _)
\* for column_name in adds: ...
AddsLoop(ntn, todo, i, fields_by_name) ==
  IF i > Len(todo) THEN <<>>
  ELSE AddColumnGroup(ntn, todo[i], fields_by_name[todo[i]])
       \o AddsLoop(ntn, todo, i + 1, fields_by_name)

\* for column_name in deletes: ...
DeletesLoop(ntn, todo) ==
  [i \in 1..Len(todo) |-> Stmt("drop_column", ntn, todo[i], "", NoName)]

\* for ocn, ncn in renames.items(): ...
RenamesLoop(ntn, renames, todo) ==
  [i \in 1..Len(todo) |-> Stmt("rename_column", ntn, todo[i], renames[todo[i]], NoName)]

\* the body of "for etn, ecols in existing_columns.items()" for one table
TableColumnChanges(existing, etn, table_renames) ==
  LET ntn == Get(table_renames, etn, etn)
      defined_fields == table_names_to_models[ntn].fields
      defined_column_name_to_field == FieldsByColumnName(defined_fields)
      Statements(c) ==
        [raised |-> c.raised,
         stmts |-> IF c.raised THEN <<>>
                   ELSE AddsLoop(ntn, SortBy(c.new_cols, hrank), 1,
                                 defined_column_name_to_field)
                        \o DeletesLoop(ntn, SortBy(c.delete_cols, hrank))
                        \o RenamesLoop(ntn, c.rename_cols,
                                       SortBy(DOMAIN c.rename_cols, hrank))
                        \o c.alter_statements]
  IN Statements(calc_column_changes(ntn, existing[etn].columns, defined_fields,
                                    existing[etn].fks))

RECURSIVE TablesLoop(_, _, _, _, _, _)
\* for etn, ecols in existing_columns.items(): ...; acc is [raised, stmts]
TablesLoop(existing, todo, i, table_deletes, table_renames, acc) ==
  IF i > Len(todo) \/ acc.raised THEN acc
  ELSE IF todo[i] \in table_deletes
  THEN TablesLoop(existing, todo, i + 1, table_deletes, table_renames, acc)
  ELSE TablesLoop(existing, todo, i + 1, table_deletes, table_renames,
                  Then(acc, TableColumnChanges(existing, todo[i], table_renames)))

\* the three parts of the plan outside the per-table loop
CreateTableStmts(table_adds) ==
  [i \in 1..Len(table_adds) |-> Stmt("create_table", table_adds[i], "", "", NoName)]
RenameTableStmts(table_renames, todo) ==
  [i \in 1..Len(todo) |-> Stmt("rename_table", todo[i], "", table_renames[todo[i]], NoName)]
DropTableStmts(todo) ==
  [i \in 1..Len(todo) |-> Stmt("drop_table", todo[i], "", "", NoName)]

\* the plan with the tables dropped before the columns are changed
AssemblePlanDropsEarly(creates, table_renames, columns, drops) ==
  creates \o table_renames \o drops \o columns

\* the order in which calc_changes concatenates the parts of to_run
AssemblePlan(creates, table_renames, columns, drops) ==
  creates \o table_renames \o columns \o drops

\* calc_changes(db) on the catalog `existing`: [raised, to_run]
calc_changes(existing) ==
  LET existing_tables == DOMAIN existing
      Plan(t, cols) ==
        [raised |-> cols.raised,
         to_run |-> IF cols.raised THEN <<>>
                    ELSE AssemblePlan(
                           CreateTableStmts(t.adds),
                           RenameTableStmts(t.renames, SortBy(DOMAIN t.renames, hrank)),
                           cols.stmts,
                           DropTableStmts(SortBy(t.deletes, hrank)))]
      Columns(t) ==
        Plan(t, TablesLoop(existing, SortBy(existing_tables, hrank), 1, t.deletes,
                           t.renames, [raised |-> FALSE, stmts |-> <<>>]))
  IN Columns(calc_table_changes(existing_tables))

(***************************************************************************)
(* The database: what a statement of the plan does to the catalog          *)
(***************************************************************************)
\* the data_type the catalog reports for a column created with a field type
CatalogType(ft) ==
  CASE ft = "SERIAL" -> "integer"
    [] ft = "INTEGER" -> "integer"
    [] ft = "VARCHAR" -> "character varying"
    [] ft = "TEXT" -> "text"
    [] ft = "TIMESTAMP" -> "timestamp without time zone"
    [] OTHER -> "double precision"

ColumnOfField(f, null) ==
  ColumnMetadata(f.db_column, CatalogType(f.column_type), null, f.primary_key)

FkOfField(table, f) ==
  ForeignKeyMetadata(f.db_column, f.rel, FkName(table, f.db_column, f.rel))

HasColumn(s, t, c) == t \in DOMAIN s /\ \E col \in s[t].columns : col.name = c

\* whether the database accepts the statement on catalog s
ExecValid(st, s) ==
  CASE st.kind = "create_table" ->
         /\ st.table \notin DOMAIN s
         /\ \A f \in models[st.table].fields :
              IsForeignKeyField(f) => f.rel \in DOMAIN s \cup {st.table}
    [] st.kind = "rename_table" -> st.table \in DOMAIN s /\ st.arg \notin DOMAIN s
    [] st.kind = "add_column" ->
         /\ st.table \in DOMAIN s
         /\ ~HasColumn(s, st.table, st.column)
         /\ st.arg # "" => st.arg \in DOMAIN s
    [] st.kind \in {"apply_default", "add_not_null", "drop_not_null", "drop_column"} ->
         HasColumn(s, st.table, st.column)
    [] st.kind = "rename_column" ->
         HasColumn(s, st.table, st.column) /\ ~HasColumn(s, st.table, st.arg)
    [] st.kind = "add_fk" -> HasColumn(s, st.table, st.column) /\ st.arg \in DOMAIN s
    [] st.kind = "drop_constraint" ->
         st.table \in DOMAIN s /\ \E fk \in s[st.table].fks : fk.name = st.name
    [] st.kind = "drop_table" ->
         /\ st.table \in DOMAIN s
         /\ \A t \in DOMAIN s \ {st.table} :
              \A fk \in s[t].fks : fk.dest_table # st.table
    [] OTHER -> FALSE

SetNull(cols, c, null) ==
  {IF col.name = c THEN [col EXCEPT !.null = null] ELSE col : col \in cols}

\* the catalog after the database ran the statement
ExecApply(st, s) ==
  CASE st.kind = "create_table" ->
         LET fields == models[st.table].fields
         IN (st.table :>
              [columns |-> {ColumnOfField(f, f.null) : f \in fields},
               fks |-> {FkOfField(st.table, f) :
                          f \in {g \in fields : IsForeignKeyField(g)}}]) @@ s
    [] st.kind = "rename_table" ->
         [t \in (DOMAIN s \ {st.table}) \cup {st.arg} |->
            LET old == IF t = st.arg THEN s[st.table] ELSE s[t]
            IN [old EXCEPT !.fks =
                  {IF fk.dest_table = st.table THEN [fk EXCEPT !.dest_table = st.arg]
                   ELSE fk : fk \in @}]]
    [] st.kind = "add_column" ->
         LET f == FieldsByColumnName(models[st.table].fields)[st.column]
         IN [s EXCEPT ![st.table] =
               [columns |-> @.columns \cup {ColumnOfField(f, TRUE)},
                fks |-> IF IsForeignKeyField(f)
                        THEN @.fks \cup {FkOfField(st.table, f)} ELSE @.fks]]
    [] st.kind = "add_not_null" ->
         [s EXCEPT ![st.table].columns = SetNull(@, st.column, FALSE)]
    [] st.kind = "drop_not_null" ->
         [s EXCEPT ![st.table].columns = SetNull(@, st.column, TRUE)]
    [] st.kind = "drop_column" ->
         [s EXCEPT ![st.table] =
               [columns |-> {col \in @.columns : col.name # st.column},
                fks |-> {fk \in @.fks : fk.column # st.column}]]
    [] st.kind = "rename_column" ->
         [s EXCEPT ![st.table] =
               [columns |-> {IF col.name = st.column THEN [col EXCEPT !.name = st.arg]
                             ELSE col : col \in @.columns},
                fks |-> {IF fk.column = st.column THEN [fk EXCEPT !.column = st.arg]
                         ELSE fk : fk \in @.fks}]]
    [] st.kind = "add_fk" ->
         [s EXCEPT ![st.table].fks =
               @ \cup {ForeignKeyMetadata(st.column, st.arg, st.name)}]
    [] st.kind = "drop_constraint" ->
         [s EXCEPT ![st.table].fks = {fk \in @ : fk.name # st.name}]
    [] st.kind = "drop_table" -> [t \in DOMAIN s \ {st.table} |-> s[t]]
    [] OTHER -> s

\* a transaction that keeps what ran before the exception
RollbackKeepsChanges(at_begin, current) == current

\* what the catalog is after db.atomic() left on an exception
Rollback(at_begin, current) == at_begin

(***************************************************************************)
(* evolve, _confirm and _execute                                           *)
(***************************************************************************)
\* the value of answered before raw_input() returned anything
NotAsked == "(not asked)"

RawResponses == {"yes", " YES ", "no", "No", "y", ""}

\* raw_input().strip().lower()
strip_lower(r) ==
  CASE r = " YES " -> "yes"
    [] r = "No" -> "no"
    [] OTHER -> r

\* to_run = calc_changes(db)
CalcChanges ==
  /\ pc = "start"
  /\ \E r \in {calc_changes(db)} :
       /\ pc' = IF r.raised THEN "error" ELSE "calculated"
       /\ to_run' = r.to_run
  /\ UNCHANGED <<models, db, hrank, interactive, idx, snapshot, executed, prompted,
                 answered, exit_status, run, before>>

\* if not to_run: ... return
EvolveUpToDate ==
  /\ pc = "calculated"
  /\ ~(Len(to_run) > 0)
  /\ pc' = "done"
  /\ UNCHANGED <<models, db, hrank, interactive, to_run, idx, snapshot, executed,
                 prompted, answered, exit_status, run, before>>

\* if interactive: _confirm(db, to_run), up to the first question
EvolveConfirm ==
  /\ pc = "calculated"
  /\ Len(to_run) > 0
  /\ interactive
  /\ pc' = "confirm"
  /\ prompted' = TRUE
  /\ UNCHANGED <<models, db, hrank, interactive, to_run, idx, snapshot, executed,
                 answered, exit_status, run, before>>

\* _execute up to "with db.atomic() as txn"
BeginExecute ==
  /\ pc' = "execute"
  /\ snapshot' = db
  /\ idx' = 1

\* the not interactive evolve goes from calc_changes to _execute
EvolveExecute ==
  /\ pc = "calculated"
  /\ Len(to_run) > 0
  /\ ~interactive
  /\ BeginExecute
  /\ UNCHANGED <<models, db, hrank, interactive, to_run, executed, prompted, answered,
                 exit_status, run, before>>

\* _confirm with the loop left on 'no' as it is on 'yes'
ConfirmAnswerNoBreaks(raw) ==
  /\ pc = "confirm"
  /\ LET response == strip_lower(raw)
     IN /\ answered' = response
        /\ IF response \in {"yes", "no"}
           THEN BeginExecute /\ UNCHANGED exit_status
           ELSE UNCHANGED <<pc, exit_status, idx, snapshot>>
  /\ UNCHANGED <<models, db, hrank, interactive, to_run, executed, prompted, run,
                 before>>

\* one round of the while True of _confirm: the question, the response
ConfirmAnswer(raw) ==
  /\ pc = "confirm"
  /\ LET response == strip_lower(raw)
     IN /\ answered' = response
        /\ IF response = "yes"
           THEN BeginExecute /\ UNCHANGED exit_status
           ELSE IF response = "no"
           THEN /\ pc' = "exited"
                /\ exit_status' = 1
                /\ UNCHANGED <<idx, snapshot>>
           ELSE UNCHANGED <<pc, exit_status, idx, snapshot>>
  /\ UNCHANGED <<models, db, hrank, interactive, to_run, executed, prompted, run,
                 before>>

\* one round of "for sql, params in to_run" that the database accepts
ExecuteStatement ==
  /\ pc = "execute"
  /\ idx <= Len(to_run)
  /\ ~IsComment(to_run[idx])
  /\ ExecValid(to_run[idx], db)
  /\ db' = ExecApply(to_run[idx], db)
  /\ idx' = idx + 1
  /\ executed' = executed + 1
  /\ UNCHANGED <<models, hrank, interactive, pc, to_run, snapshot, prompted, answered,
                 exit_status, run, before>>

\* if sql.strip().startswith('--'): continue
ExecuteSkipComment ==
  /\ pc = "execute"
  /\ idx <= Len(to_run)
  /\ IsComment(to_run[idx])
  /\ idx' = idx + 1
  /\ UNCHANGED <<models, db, hrank, interactive, pc, to_run, snapshot, executed,
                 prompted, answered, exit_status, run, before>>

\* db.execute_sql raises (the database may refuse any statement): the exception
\* leaves the with block, db.atomic() rolls back, _execute and evolve raise
ExecuteFails ==
  /\ pc = "execute"
  /\ idx <= Len(to_run)
  /\ ~IsComment(to_run[idx])
  /\ db' = Rollback(snapshot, db)
  /\ executed' = executed + 1
  /\ pc' = "raised"
  /\ UNCHANGED <<models, hrank, interactive, to_run, idx, snapshot, prompted, answered,
                 exit_status, run, before>>

\* the for loop ended: db.atomic() commits, _execute and evolve return
ExecuteCommit ==
  /\ pc = "execute"
  /\ idx > Len(to_run)
  /\ pc' = "done"
  /\ UNCHANGED <<models, db, hrank, interactive, to_run, idx, snapshot, executed,
                 prompted, answered, exit_status, run, before>>

\* the caller calls evolve again after it returned
EvolveAgain ==
  /\ pc = "done"
  /\ run < MaxRuns
  /\ run' = run + 1
  /\ pc' = "start"
  /\ to_run' = <<>>
  /\ idx' = 0
  /\ executed' = 0
  /\ prompted' = FALSE
  /\ answered' = NotAsked
  /\ before' = db
  /\ UNCHANGED <<models, db, hrank, interactive, snapshot, exit_status>>

Next ==
  \/ CalcChanges
  \/ EvolveUpToDate
  \/ EvolveConfirm
  \/ EvolveExecute
  \/ \E raw \in RawResponses : ConfirmAnswer(raw)
  \/ ExecuteStatement
  \/ ExecuteSkipComment
  \/ ExecuteFails
  \/ ExecuteCommit
  \/ EvolveAgain

(***************************************************************************)
(* Initial states: a registry, a catalog and a hash order                  *)
(***************************************************************************)
MaxFks == 3       \* most foreign keys among the tables of the dependency scenarios

Field(db_column, column_type, null, primary_key, akas, default, rel) ==
  [db_column |-> db_column, column_type |-> column_type, null |-> null,
   primary_key |-> primary_key, akas |-> akas, default |-> default, rel |-> rel]

IdField == Field("id", "SERIAL", FALSE, TRUE, <<>>, "None", "")
IdColumn == ColumnMetadata("id", "integer", FALSE, TRUE)
PlainModel(aka) == [aka |-> aka, fields |-> {IdField}]
PlainTable == [columns |-> {IdColumn}, fks |-> {}]
DefaultValues == {"None", "int:0", "int:1", "str:"}

\* a hash order of all names from an order of the tables and one of the
\* other groups of names
HashOrder(pT, rev) ==
  LET two(a, n) == IF (n = a) = rev THEN 1 ELSE 2
  IN [n \in AllNames |->
        CASE n \in NewTables -> pT[n]
          [] n \in OldTables -> 3 + two("o2", n)
          [] n = "id" -> 0
          [] n \in OldCols -> 10 + two("c2", n)
          [] n \in NewCols -> 20 + two("n2", n)
          [] OTHER -> 30 + pT[CHOOSE d \in NewTables : FkCol[d] = n]]

IdPerm == [n \in NewTables |-> AlphaRank[n]]

\* the tables of NewTables with any foreign keys among them, some existing
InitFks ==
  \E E \in {G \in SUBSET (NewTables \X NewTables) : Cardinality(G) <= MaxFks} :
    \E X \in {Y \in SUBSET NewTables : \A e \in E : e[1] \in Y => e[2] \in Y} :
      \E pT \in Perms(NewTables) :
        LET m == [t \in NewTables |->
                    [aka |-> <<>>,
                     fields |-> {IdField} \cup
                       {Field(FkCol[e[2]], "INTEGER", FALSE, FALSE, <<>>, "None", e[2])
                          : e \in {x \in E : x[1] = t}}]]
        IN /\ models = m
           /\ db = [t \in X |->
                      [columns |-> {ColumnOfField(f, f.null) : f \in m[t].fields},
                       fks |-> {FkOfField(t, f)
                                  : f \in {g \in m[t].fields : IsForeignKeyField(g)}}]]
           /\ hrank = HashOrder(pT, FALSE)
           /\ interactive = FALSE

\* declared tables with alias lists against existing tables of other names
InitRenames ==
  \E D \in {Y \in SUBSET {"t1", "t2"} : Y # {}} :
    \E a \in [D -> ListsUpTo(OldTables, MaxAkas)] :
      \E X \in SUBSET (OldTables \cup {"t2"}) :
        \E pT \in {p \in Perms(NewTables) : p["t3"] = 3} :
          /\ models = [t \in D |-> PlainModel(a[t])]
          /\ db = [t \in X |-> PlainTable]
          /\ hrank = HashOrder(pT, pT["t1"] = 2)
          /\ interactive \in BOOLEAN

\* one column, c1 of t1, existing and declared with any two definitions
InitAlters ==
  LET Flags == {f \in [null : BOOLEAN, pk : BOOLEAN] : f.pk => ~f.null}
  IN \E ft \in FieldTypes, df \in Flags, rel \in {"", "t2"},
        ct \in CatalogTypes, ef \in Flags, fk \in BOOLEAN :
       /\ models =
            ("t1" :> [aka |-> <<>>,
                      fields |-> {IdField,
                                  Field("c1", ft, df.null, df.pk, <<>>, "None", rel)}])
            @@ ("t2" :> PlainModel(<<>>))
       /\ db =
            ("t1" :> [columns |-> {IdColumn, ColumnMetadata("c1", ct, ef.null, ef.pk)},
                      fks |-> IF fk
                              THEN {ForeignKeyMetadata("c1", "t2",
                                                       FkName("t1", "c1", "t2"))}
                              ELSE {}])
            @@ ("t2" :> PlainTable)
       /\ hrank = HashOrder(IdPerm, FALSE)
       /\ interactive = FALSE

\* columns n1, n2 of t1 declared with alias lists against existing columns c1, c2
InitColumns ==
  LET N1 == {{}} \cup
            {{Field("n1", "INTEGER", null, FALSE, akas, "None", rel)}
               : <<null, akas, rel>> \in BOOLEAN \X ListsUpTo(OldCols, MaxAkas)
                                          \X {"", "t2"}}
            \cup
            {{Field("n1", "INTEGER", FALSE, FALSE, <<>>, d, rel)}
               : <<d, rel>> \in DefaultValues \X {"", "t2"}}
      N2 == {{}} \cup
            {{Field("n2", "INTEGER", TRUE, FALSE, akas, "None", "")}
               : akas \in ListsUpTo(OldCols, 1)}
  IN \E n1 \in N1, n2 \in N2, c1 \in {{}, {"plain"}, {"fk"}}, c2 \in {{}, {"plain"}},
        pT \in {p \in Perms(NewTables) : p["t3"] = 3}, rev \in BOOLEAN :
       /\ models =
            ("t1" :> [aka |-> <<>>, fields |-> {IdField} \cup n1 \cup n2])
            @@ ("t2" :> PlainModel(<<>>))
       /\ db =
            ("t1" :> [columns |-> {IdColumn}
                        \cup {ColumnMetadata("c1", "integer", TRUE, FALSE) : x \in c1}
                        \cup {ColumnMetadata("c2", "integer", TRUE, FALSE) : x \in c2},
                      fks |-> {ForeignKeyMetadata("c1", "t2", FkName("t1", "c1", "t2"))
                                 : x \in c1 \cap {"fk"}}])
            @@ ("t2" :> PlainTable)
       /\ hrank = HashOrder(pT, rev)
       /\ interactive = FALSE

\* a table renamed and its columns changed while other tables come and go:
\* o1(id, c1, c2) becomes t1(id, c1 not null, c2, n1), t2 is new, o2 is gone
InitMixed ==
  \E D \in SUBSET {"t2"}, X \in SUBSET {"o2"}, nd \in {"None", "int:1"},
     pT \in {p \in Perms(NewTables) : p["t3"] = 3} :
    /\ models =
         ("t1" :> [aka |-> <<"o1">>,
                   fields |-> {IdField,
                               Field("c1", "VARCHAR", FALSE, FALSE, <<>>, "None", ""),
                               Field("c2", "VARCHAR", TRUE, FALSE, <<>>, "None", ""),
                               Field("n1", "VARCHAR", FALSE, FALSE, <<>>, nd, "")}])
         @@ [t \in D |-> PlainModel(<<>>)]
    /\ db =
         ("o1" :> [columns |-> {IdColumn,
                                ColumnMetadata("c1", "character varying", TRUE, FALSE),
                                ColumnMetadata("c2", "character varying", TRUE, FALSE)},
                   fks |-> {}])
         @@ [t \in X |-> PlainTable]
    /\ hrank = HashOrder(pT, pT["t1"] = 2)
    /\ interactive \in BOOLEAN

Init ==
  /\ InitFks \/ InitRenames \/ InitAlters \/ InitColumns \/ InitMixed
  /\ before = db
  /\ snapshot = db
  /\ pc = "start"
  /\ to_run = <<>>
  /\ idx = 0
  /\ executed = 0
  /\ prompted = FALSE
  /\ answered = NotAsked
  /\ exit_status = 0
  /\ run = 1

Spec == Init /\ [][Next]_vars

(***************************************************************************)
(* Properties                                                              *)
(***************************************************************************)
Planned == pc = "calculated"
Idx == 1..Len(to_run)
OfKind(k) == {i \in Idx : to_run[i].kind = k}
Count(P(_)) == Cardinality({i \in Idx : P(to_run[i])})

\* the name a table of the catalog has once the plan ran, "" when it is dropped
NewTableName(etn) ==
  IF \E i \in OfKind("drop_table") : to_run[i].table = etn THEN ""
  ELSE IF \E i \in OfKind("rename_table") : to_run[i].table = etn
  THEN to_run[CHOOSE i \in OfKind("rename_table") : to_run[i].table = etn].arg
  ELSE etn
Surviving == {etn \in DOMAIN before : NewTableName(etn) # ""}

\* the existing columns of etn the declared column cn of ntn is matched with
Sources(etn, ntn, cn) ==
  {c.name : c \in {x \in before[etn].columns : x.name = cn}}
  \cup {to_run[i].column :
          i \in {j \in OfKind("rename_column") :
                   to_run[j].table = ntn /\ to_run[j].arg = cn}}

\* the state of the catalog that is committed
Committed == IF pc = "execute" THEN snapshot ELSE db

\* C1: a failure inside _execute reaches the caller with the catalog as it was
\* before the run, and the committed catalog differs from the one before the
\* run only when evolve returned after every statement of the plan was run
C1_AtomicApplication ==
  /\ pc = "raised" => db = before
  /\ Committed # before => pc = "done" /\ idx = Len(to_run) + 1

\* C1: a statement failed after an earlier statement of the plan had run
C1_Witness == pc = "raised" /\ executed >= 2 /\ idx = Len(to_run)

\* C2: the plan creates every added table once, and none before a table other
\* than itself that it has a foreign key to
C2_DependencyOrder ==
  Planned =>
    /\ \A t \in DOMAIN models \ DOMAIN before :
         (\A i \in OfKind("rename_table") : to_run[i].arg # t)
           => Cardinality({i \in OfKind("create_table") : to_run[i].table = t}) = 1
    /\ \A i, j \in OfKind("create_table") :
         (i < j /\ to_run[i].table # to_run[j].table)
           => to_run[j].table \notin FkDests(to_run[i].table)

\* C3: calc_changes returns no plan when an existing column and the declared
\* column it is matched with differ in normalized type or primary-key flag
C3_FatalOnUnsupportedChange ==
  Planned =>
    \A etn \in Surviving :
      \A f \in models[NewTableName(etn)].fields :
        \A c \in before[etn].columns :
          c.name \in Sources(etn, NewTableName(etn), f.db_column)
            => /\ normalize_column_type(c.data_type) = normalize_field_type(f)
               /\ c.primary_key = f.primary_key

\* C4: after evolve computed a plan and ran all of it, the next calc_changes
\* returns an empty plan and does not raise
C4_Idempotence ==
  (run >= 2 /\ pc # "start") => (pc \in {"calculated", "done"} /\ to_run = <<>>)

\* t_old exists undeclared, t_new is declared, does not exist and lists t_old
RenamePair(t_old, t_new) ==
  /\ t_old \in DOMAIN before \ DOMAIN models
  /\ t_new \in DOMAIN models \ DOMAIN before
  /\ t_old \in Range(models[t_new].aka)

\* the plan renames t_old to t_new once and neither creates t_new nor drops t_old
RenamedOnce(t_old, t_new) ==
  /\ Cardinality({i \in OfKind("rename_table") :
                    to_run[i].table = t_old /\ to_run[i].arg = t_new}) = 1
  /\ \A i \in OfKind("create_table") : to_run[i].table # t_new
  /\ \A i \in OfKind("drop_table") : to_run[i].table # t_old

\* C5 as stated: every such pair is renamed once, whatever the other declared
\* tables and the alias list of t_new are
C5_RenamePrecedence ==
  Planned => \A t_old \in OldTables, t_new \in NewTables :
               RenamePair(t_old, t_new) => RenamedOnce(t_old, t_new)

\* t_old is the first alias of t_new that exists undeclared, and no other
\* declared table that does not exist lists t_old
FirstClaim(t_old, t_new) ==
  /\ \E k \in 1..Len(models[t_new].aka) :
       /\ models[t_new].aka[k] = t_old
       /\ \A j \in 1..(k - 1) :
            models[t_new].aka[j] \notin DOMAIN before \ DOMAIN models
  /\ \A t \in (DOMAIN models \ DOMAIN before) \ {t_new} :
       t_old \notin Range(models[t].aka)

\* C5 amended: the pair is renamed once when t_old is the first alias of t_new
\* that exists undeclared and no other table to add lists t_old
C5_RenamePrecedenceFirstAlias ==
  Planned => \A t_old \in OldTables, t_new \in NewTables :
               (RenamePair(t_old, t_new) /\ FirstClaim(t_old, t_new))
                 => RenamedOnce(t_old, t_new)

\* C5: a table renamed from its first alias while a later alias exists as well
C5_Witness ==
  /\ Planned
  /\ \E t_old \in OldTables, t_new \in NewTables :
       /\ RenamePair(t_old, t_new) /\ FirstClaim(t_old, t_new)
       /\ RenamedOnce(t_old, t_new)
       /\ \E o \in (DOMAIN before \ DOMAIN models) \ {t_old} :
            o \in Range(models[t_new].aka)

\* the part of the plan a statement belongs to
Phase(st) ==
  CASE st.kind = "create_table" -> 1
    [] st.kind = "rename_table" -> 2
    [] st.kind = "drop_table" -> 4
    [] OTHER -> 3

\* whether statement i belongs to the group of an added column
InAddGroup(i) ==
  \/ to_run[i].kind \in {"add_column", "apply_default"}
  \/ /\ to_run[i].kind = "add_not_null"
     /\ \E j \in OfKind("add_column") :
          to_run[j].table = to_run[i].table /\ to_run[j].column = to_run[i].column

\* the part of a table's statements a column-level statement belongs to
Step(i) ==
  CASE InAddGroup(i) -> 1
    [] to_run[i].kind = "drop_column" -> 2
    [] to_run[i].kind = "rename_column" -> 3
    [] OTHER -> 4

\* C6: creates, then table renames, then the column-level statements, then
\* drops; for one table the added columns, then the dropped, then the renamed,
\* then the other alters; a comment follows the add-column it is about
C6_PlanOrdering ==
  Planned =>
    /\ \A i, j \in Idx : i < j => Phase(to_run[i]) <= Phase(to_run[j])
    /\ \A i, j \in Idx :
         (/\ i < j
          /\ Phase(to_run[i]) = 3 /\ Phase(to_run[j]) = 3
          /\ ~IsComment(to_run[i]) /\ ~IsComment(to_run[j])
          /\ to_run[i].table = to_run[j].table)
           => Step(i) <= Step(j)
    /\ \A i \in OfKind("comment") : i > 1 /\ to_run[i - 1].kind = "add_column"

\* C6: a plan with a create, a table rename, column statements and a drop
C6_Witness ==
  /\ Planned
  /\ \A k \in {"create_table", "rename_table", "add_column", "add_not_null",
               "drop_table"} : OfKind(k) # {}

\* the foreign-key statements the plan holds for declared field f of ntn are
\* those the claim asks for when f is matched with the existing column o
FkStatementsFor(etn, ntn, f, o) ==
  LET on_o == {fk \in before[etn].fks : fk.column = o}
      IsAdd(st) == st.kind = "add_fk" /\ st.table = ntn /\ st.column = f.db_column
      IsDrop(st) == /\ st.kind = "drop_constraint" /\ st.table = ntn
                    /\ \E fk \in on_o : fk.name = st.name
  IN /\ Count(IsAdd) = IF IsForeignKeyField(f) /\ on_o = {} THEN 1 ELSE 0
     /\ Count(IsDrop) = IF ~IsForeignKeyField(f) /\ on_o # {} THEN 1 ELSE 0

FieldOf(st) == FieldsByColumnName(models[st.table].fields)[st.column]

\* C8: an added NOT NULL column is followed by the back-fill when a default is
\* declared and by the warning when none is, then by the add-not-null; an
\* added nullable column by none of them
C8_NotNullAdd ==
  Planned =>
    \A i \in OfKind("add_column") :
      LET f == FieldOf(to_run[i])
          Is(j, k) == /\ j \in Idx /\ to_run[j].kind = k
                      /\ (k # "comment" =>
                            /\ to_run[j].table = to_run[i].table
                            /\ to_run[j].column = to_run[i].column)
      IN IF ~f.null
         THEN /\ IF f.default # "None" THEN Is(i + 1, "apply_default")
                 ELSE Is(i + 1, "comment")
              /\ Is(i + 2, "add_not_null")
         ELSE \A k \in {"apply_default", "comment", "add_not_null"} : ~Is(i + 1, k)

\* C9: nothing is executed before the answer 'yes'; 'no' exits with a non-zero
\* status, nothing executed, the catalog unchanged; any other answer leaves
\* _confirm asking; an empty plan is neither asked about nor executed
C9_ConfirmationGate ==
  /\ (interactive /\ (pc = "execute" \/ executed > 0)) => answered = "yes"
  /\ pc = "exited" => /\ answered = "no" /\ exit_status # 0
                      /\ executed = 0 /\ db = before
  /\ answered = "no" => pc = "exited"
  /\ answered \notin {NotAsked, "yes", "no"} =>
       pc = "confirm" /\ executed = 0 /\ db = before
  /\ (to_run = <<>> /\ pc \in {"calculated", "done"}) => ~prompted /\ executed = 0
  /\ prompted => interactive /\ to_run # <<>>

\* C9: the operator declined a plan of several statements
C9_Witness == pc = "exited" /\ Len(to_run) > 1 /\ interactive

\* C10: no two rename-column statements of a table share the new name or the
\* old name
C10_RenameOneToOne ==
  Planned =>
    \A i, j \in OfKind("rename_column") :
      (i # j /\ to_run[i].table = to_run[j].table)
        => to_run[i].arg # to_run[j].arg /\ to_run[i].column # to_run[j].column

====
